---- MODULE Spec2Model ----
(***************************************************************************)
(* Model of hank-plugin-wordle: the share-text codec (Tile, PuzzleBoard,   *)
(* Puzzle), the process-wide daily-puzzle cache (get_current_puzzle), the  *)
(* chat-message handler that records submissions, and the SQL ranking      *)
(* queries over the stored submissions.                                    *)
(*                                                                         *)
(* A text is a sequence of characters; a character is a one-element string.*)
(* The three emoji squares are single characters, written here by their    *)
(* code points: "U+2B1B" (black), "U+1F7E8" (yellow), "U+1F7E9" (green).    *)
(***************************************************************************)
EXTENDS Integers, Sequences, FiniteSets, TLC

VARIABLES now, cache, store, phase, input, last

vars == <<now, cache, store, phase, input, last>>

(***************************************************************************)
(* Characters and small text helpers                                       *)
(***************************************************************************)
NL == "\n"

SqBlack == "U+2B1B"

SqYellow == "U+1F7E8"

SqGreen == "U+1F7E9"

Digits == {"0", "1", "2", "3", "4", "5", "6", "7", "8", "9"}

DigitChars == <<"0", "1", "2", "3", "4", "5", "6", "7", "8", "9">>

DigitVal(c) == (CHOOSE k \in 1..10 : DigitChars[k] = c) - 1

I32Max == 2147483647

\* i32::to_string for a non-negative value: its decimal digits.
RECURSIVE I32ToString(_)
I32ToString(n) ==
  IF n < 10 THEN <<DigitChars[n + 1]>>
  ELSE I32ToString(n \div 10) \o <<DigitChars[(n % 10) + 1]>>

\* str::parse::<i32>() of an unsigned text: ParseErr on an empty text, on a
\* character that is not an ASCII digit and on a value above i32::MAX.
ParseErr == -1

RECURSIVE ParseAcc(_, _)
ParseAcc(s, acc) ==
  IF s = <<>> THEN acc
  ELSE IF Head(s) \notin Digits THEN ParseErr
  ELSE IF acc > (I32Max - DigitVal(Head(s))) \div 10 THEN ParseErr
  ELSE ParseAcc(Tail(s), acc * 10 + DigitVal(Head(s)))

ParseI32(s) == IF s = <<>> THEN ParseErr ELSE ParseAcc(s, 0)

\* str::replace(c, ""): every occurrence of the character removed.
RemoveChar(s, c) == SelectSeq(s, LAMBDA x : x # c)

\* [&str]::join(sep) over a sequence of texts.
RECURSIVE Join(_, _)
Join(parts, sep) ==
  IF parts = <<>> THEN <<>>
  ELSE IF Len(parts) = 1 THEN parts[1]
  ELSE parts[1] \o sep \o Join(Tail(parts), sep)

\* Index of the first occurrence of pat in s at or after i, 0 when none.
IsPrefixAt(s, pat, i) ==
  /\ i >= 1
  /\ i + Len(pat) - 1 <= Len(s)
  /\ \A k \in 1..Len(pat) : s[i + k - 1] = pat[k]

FindFrom(s, pat, i) ==
  IF \E j \in i..Len(s) : IsPrefixAt(s, pat, j)
  THEN CHOOSE j \in i..Len(s) :
         /\ IsPrefixAt(s, pat, j)
         /\ \A h \in i..(j - 1) : ~IsPrefixAt(s, pat, h)
  ELSE 0

\* str::split(pat): the pieces between the non-overlapping occurrences of
\* pat, found left to right; always at least one piece.
RECURSIVE Split(_, _)
Split(s, pat) ==
  LET j == FindFrom(s, pat, 1)
  IN IF j = 0 THEN <<s>>
     ELSE <<SubSeq(s, 1, j - 1)>> \o Split(SubSeq(s, j + Len(pat), Len(s)), pat)

\* str::lines(): the pieces between newlines; a final empty piece (the text
\* is empty or ends with a newline) is not a line.
Lines(text) ==
  LET pieces == Split(text, <<NL>>)
  IN IF pieces[Len(pieces)] = <<>> THEN SubSeq(pieces, 1, Len(pieces) - 1)
     ELSE pieces

(***************************************************************************)
(* Tile                                                                    *)
(***************************************************************************)
Tiles == {"Black", "Yellow", "Green"}

AliasBlack ==
  <<"b","l","a","c","k","_","l","a","r","g","e","_","s","q","u","a","r","e">>

AliasYellow ==
  <<"l","a","r","g","e","_","y","e","l","l","o","w","_","s","q","u","a","r","e">>

AliasGreen ==
  <<"l","a","r","g","e","_","g","r","e","e","n","_","s","q","u","a","r","e">>

\* impl From<Tile> for String
TileToString(t) ==
  CASE t = "Black" -> <<SqBlack>>
    [] t = "Yellow" -> <<SqYellow>>
    [] t = "Green" -> <<SqGreen>>

\* impl TryFrom<String> for Tile; "err" stands for the bail!.
TileTryFrom(tok) ==
  CASE tok = AliasBlack -> "Black"
    [] tok = AliasYellow -> "Yellow"
    [] tok = AliasGreen -> "Green"
    [] tok = <<SqBlack>> -> "Black"
    [] tok = <<SqYellow>> -> "Yellow"
    [] tok = <<SqGreen>> -> "Green"
    [] OTHER -> "err"

(***************************************************************************)
(* PuzzleBoard                                                             *)
(***************************************************************************)
MaxRows == 6

MaxRowLen == 5

\* The tokens of one board line: the "::"-separated names with every ":"
\* removed when the line contains "::", else the line's characters.
RowTokens(line) ==
  IF FindFrom(line, <<":", ":">>, 1) # 0
  THEN LET parts == Split(line, <<":", ":">>)
       IN [k \in 1..Len(parts) |-> RemoveChar(parts[k], ":")]
  ELSE [k \in 1..Len(line) |-> <<line[k]>>]

BoardErr == [ok |-> FALSE, board |-> <<>>]

\* The while loop of impl TryFrom<String> for PuzzleBoard over the remaining
\* lines: BoardErr as soon as a token is no tile or a row is too long.
RECURSIVE BoardRows(_, _)
BoardRows(lines, board) ==
  IF lines = <<>> \/ Len(board) = MaxRows THEN [ok |-> TRUE, board |-> board]
  ELSE IF Head(lines) = <<>> THEN BoardRows(Tail(lines), board)
  ELSE LET toks == RowTokens(Head(lines))
           row == [k \in 1..Len(toks) |-> TileTryFrom(toks[k])]
       IN IF \E k \in 1..Len(row) : row[k] = "err" THEN BoardErr
          ELSE IF Len(row) > MaxRowLen THEN BoardErr
          ELSE BoardRows(Tail(lines), Append(board, row))

\* impl TryFrom<String> for PuzzleBoard
BoardTryFrom(text) ==
  LET res == BoardRows(Lines(text), <<>>)
  IN IF ~res.ok THEN BoardErr
     ELSE IF Len(res.board) = 0 THEN BoardErr
     ELSE IF /\ Len(res.board) = 1
             /\ \E k \in 1..Len(res.board[1]) : res.board[1][k] # "Green"
          THEN BoardErr
     ELSE res

\* impl From<PuzzleBoard> for String
BoardToString(board) ==
  Join([r \in 1..Len(board) |->
          Join([k \in 1..Len(board[r]) |-> TileToString(board[r][k])], <<>>)],
       <<NL>>)

(***************************************************************************)
(* Puzzle                                                                  *)
(***************************************************************************)
WordlePrefix == <<"W", "o", "r", "d", "l", "e", " ">>

\* rchunks(n).rev(): the chunks of n characters counted from the right, in
\* left-to-right order (the first chunk is the short one).
RECURSIVE RChunks(_, _)
RChunks(s, n) ==
  IF Len(s) <= n THEN (IF s = <<>> THEN <<>> ELSE <<s>>)
  ELSE Append(RChunks(SubSeq(s, 1, Len(s) - n), n),
              SubSeq(s, Len(s) - n + 1, Len(s)))

\* The header's day offset: the decimal digits joined in groups of three.
GroupedDayOffset(n) == Join(RChunks(I32ToString(n), 3), <<",">>)

\* impl From<Puzzle> for String
PuzzleToString(p) ==
  WordlePrefix \o GroupedDayOffset(p.day_offset) \o <<" ">>
    \o I32ToString(p.attempts) \o <<"/", "6">>
    \o (IF p.hard_mode THEN <<"*">> ELSE <<>>)
    \o <<NL, NL>> \o BoardToString(p.board)

\* The last index of the longest run of digits of s that starts at a
\* (a - 1 when s has no digit at a): what \d+ consumes when the next
\* pattern element is not a digit.
DigitRunEnd(s, a) ==
  IF a > Len(s) THEN a - 1
  ELSE
  CHOOSE e \in (a - 1)..Len(s) :
    /\ \A k \in a..e : s[k] \in Digits
    /\ (e = Len(s) \/ s[e + 1] \notin Digits)

NoMatch == [matched |-> FALSE, day_offset |-> <<>>, attempts |-> "", hard_mode |-> FALSE]

\* The regex Wordle (\d+,\d+) (\d|X)\/6(\*)? tried at position i of line.
MatchAt(line, i) ==
  IF ~IsPrefixAt(line, WordlePrefix, i) THEN NoMatch
  ELSE
    LET a == i + Len(WordlePrefix)
        e1 == DigitRunEnd(line, a)
        e2 == DigitRunEnd(line, e1 + 2)
        t == e2 + 2
    IN IF /\ e1 >= a
          /\ IsPrefixAt(line, <<",">>, e1 + 1)
          /\ e2 >= e1 + 2
          /\ IsPrefixAt(line, <<" ">>, e2 + 1)
          /\ t <= Len(line)
          /\ line[t] \in Digits \cup {"X"}
          /\ IsPrefixAt(line, <<"/", "6">>, t + 1)
       THEN [matched |-> TRUE,
             day_offset |-> SubSeq(line, a, e2),
             attempts |-> line[t],
             hard_mode |-> IsPrefixAt(line, <<"*">>, t + 3)]
       ELSE NoMatch

\* Regex::captures: the match at the leftmost position that has one; the
\* pattern is not anchored.
Captures(line) ==
  IF \E i \in 1..Len(line) : MatchAt(line, i).matched
  THEN MatchAt(line, CHOOSE i \in 1..Len(line) :
                       /\ MatchAt(line, i).matched
                       /\ \A h \in 1..(i - 1) : ~MatchAt(line, h).matched)
  ELSE NoMatch

NoPuzzle ==
  [day_offset |-> 0, attempts |-> 0, solved |-> FALSE, hard_mode |-> FALSE,
   board |-> <<>>]

\* The conversion of the remaining lines into the board field (.into()).
BoardInto(text) == BoardTryFrom(text)

\* impl TryFrom<String> for Puzzle.  kind is "ok" (Ok(Puzzle)), "err"
\* (Err(())) or "panic" (the unwrap of the day offset's parse fails); stage
\* names the place the conversion stopped at.
PuzzleTryFrom(value) ==
  LET lines == Lines(value)
      first_line == IF lines = <<>> THEN <<>> ELSE Head(lines)
      captures == Captures(first_line)
      day_offset == ParseI32(RemoveChar(captures.day_offset, ","))
      parsed == ParseI32(<<captures.attempts>>)
      attempts == IF parsed = ParseErr THEN 6 ELSE parsed
      solved == captures.attempts # "X"
      b == BoardInto(Join(Tail(lines), <<NL>>))
  IN IF ~captures.matched
       THEN [kind |-> "err", stage |-> "header", puzzle |-> NoPuzzle]
     ELSE IF day_offset = ParseErr
       THEN [kind |-> "panic", stage |-> "day_offset", puzzle |-> NoPuzzle]
     ELSE IF ~b.ok
       THEN [kind |-> "err", stage |-> "board", puzzle |-> NoPuzzle]
     ELSE [kind |-> "ok", stage |-> "done",
           puzzle |-> [day_offset |-> day_offset, attempts |-> attempts,
                       solved |-> solved, hard_mode |-> captures.hard_mode,
                       board |-> b.board]]

(***************************************************************************)
(* Time.  An instant is a number of ticks; a day has TicksPerDay ticks and *)
(* tick 0 of a day is its midnight.  Dates are day numbers since           *)
(* 1970-01-01.                                                             *)
(***************************************************************************)
TicksPerDay == 2

\* 2021-06-19, the launch day named in from_calculated.
LaunchDate == 18797

\* The day offset of the first modelled day, and the number of ticks the
\* model lets pass.
StartOffset == 1234

MaxTicks == 3

StartNow == (LaunchDate + StartOffset) * TicksPerDay

MaxNow == StartNow + MaxTicks

\* Hank::datetime().date_naive()
DateNaive(t) == t \div TicksPerDay

(***************************************************************************)
(* CurrentPuzzle and the metadata source                                   *)
(***************************************************************************)
\* #[derive(Default)] for CurrentPuzzle; the date default is never read.
DefaultCurrentPuzzle ==
  [id |-> 0, days_since_launch |-> 0, print_date |-> 0, solution |-> "",
   editor |-> ""]

\* from_calculated counting the launch day itself as a day.
FromCalculatedInclusive(t) ==
  LET wordle_launch_day == LaunchDate * TicksPerDay
      days_since_launch == (t - wordle_launch_day) \div TicksPerDay + 1
  IN [DefaultCurrentPuzzle EXCEPT !.days_since_launch = days_since_launch,
                                  !.print_date = DateNaive(t)]

\* CurrentPuzzle::from_calculated at instant t.
FromCalculated(t) ==
  LET wordle_launch_day == LaunchDate * TicksPerDay
      days_since_launch == (t - wordle_launch_day) \div TicksPerDay
  IN [DefaultCurrentPuzzle EXCEPT !.days_since_launch = days_since_launch,
                                  !.print_date = DateNaive(t)]

\* The record the metadata source holds for date d.
SourceRecord(d) ==
  [id |-> d - LaunchDate + 1, days_since_launch |-> d - LaunchDate,
   print_date |-> d, solution |-> "solution", editor |-> "editor"]

\* What one query of the source at instant t can do: fail in the transport,
\* deliver a body that does not deserialize, deliver the record of today,
\* or deliver the record of another date.
Outcomes(t) ==
  {[kind |-> "net_err", puzzle |-> DefaultCurrentPuzzle],
   [kind |-> "deser_err", puzzle |-> DefaultCurrentPuzzle],
   [kind |-> "ok", puzzle |-> SourceRecord(DateNaive(t))],
   [kind |-> "ok", puzzle |-> SourceRecord(DateNaive(t) - 1)]}

\* The number of source queries of one call the model follows.
MaxQueries == 4

\* get_current_puzzle_inner(retries) at instant t with q queries already
\* made: the set of its possible results, one for each behaviour of the
\* source.  res is "ok", "err", or "cut" when the call needs more queries
\* than the model follows; outcomes are the outcomes of its queries.
\* http::request(..)? returns a transport error at once; only a
\* deserialization error reaches the retry.
RECURSIVE Inner(_, _, _)
Inner(retries, t, q) ==
  IF q >= MaxQueries
    THEN {[res |-> "cut", puzzle |-> DefaultCurrentPuzzle, q |-> q,
           outcomes |-> <<>>]}
  ELSE UNION {
    CASE r.kind = "net_err" ->
           {[res |-> "err", puzzle |-> DefaultCurrentPuzzle, q |-> q + 1,
             outcomes |-> <<r.kind>>]}
      [] r.kind = "ok" ->
           {[res |-> "ok", puzzle |-> r.puzzle, q |-> q + 1,
             outcomes |-> <<r.kind>>]}
      [] r.kind = "deser_err" ->
           IF retries > 1
             THEN {[n EXCEPT !.outcomes = <<r.kind>> \o n.outcomes] :
                     n \in Inner(retries - 1, t, q + 1)}
           ELSE {[res |-> "err", puzzle |-> DefaultCurrentPuzzle, q |-> q + 1,
                  outcomes |-> <<r.kind>>]}
    : r \in Outcomes(t)}

\* No query: the branch that does not call get_current_puzzle_inner.
Skip(q) == [res |-> "skip", puzzle |-> DefaultCurrentPuzzle, q |-> q, outcomes |-> <<>>]

\* OnceLock::set: stores the value only in an empty cell.
OnceSet(c, v) == IF c = <<>> THEN <<v>> ELSE c

\* One refresh in the log of a call: the outcomes of its queries, the value
\* it fetched (empty when it failed) and the cell right after it.
Refresh(r, c) ==
  [outcomes |-> r.outcomes,
   fetched |-> IF r.res = "ok" THEN <<r.puzzle>> ELSE <<>>,
   cell |-> c]

\* A call that needs more queries than the model follows.
Cut(c, q, log) ==
  [status |-> "cut", ret |-> DefaultCurrentPuzzle, cell |-> c, queries |-> q,
   log |-> log]

\* get_current_puzzle(reset) at instant t on cell c, with q queries made
\* and log the refreshes so far: the set of its possible results.  status
\* is "returned" or "cut"; cell is the cell the call leaves.
RECURSIVE GetCurrentPuzzle(_, _, _, _, _)
GetCurrentPuzzle(reset, c, t, q, log) ==
  LET \* the rest of the call once the cell is c2 after r2.q queries
      Check(c2, q2, log2) ==
        IF c2[1].print_date # DateNaive(t)
          THEN GetCurrentPuzzle(TRUE, c2, t, q2, log2)
        ELSE {[status |-> "returned", ret |-> c2[1], cell |-> c2,
               queries |-> q2, log |-> log2]}
      \* CURRENT_PUZZLE.get_or_init(..) of the second half
      GetOrInit(c1, q1, log1) ==
        IF c1 # <<>> THEN Check(c1, q1, log1)
        ELSE UNION {
          IF r2.res = "cut" THEN {Cut(c1, r2.q, log1)}
          ELSE LET c2 == IF r2.res = "ok" THEN <<r2.puzzle>>
                         ELSE <<FromCalculated(t)>>
               IN Check(c2, r2.q, Append(log1, Refresh(r2, c2)))
          : r2 \in Inner(2, t, q1)}
  IN IF ~reset THEN GetOrInit(c, q, log)
     ELSE UNION {
       IF r1.res = "cut" THEN {Cut(c, r1.q, log)}
       ELSE IF r1.res = "ok" THEN
         LET c1 == OnceSet(c, r1.puzzle)
         IN GetOrInit(c1, r1.q, Append(log, Refresh(r1, c1)))
       ELSE
         LET c3 == IF c # <<>> THEN c ELSE <<FromCalculated(t)>>
         IN {[status |-> "returned", ret |-> c3[1], cell |-> c3,
              queries |-> r1.q, log |-> Append(log, Refresh(r1, c3))]}
       : r1 \in Inner(2, t, q)}

(***************************************************************************)
(* The puzzle table and the ranking queries                                *)
(***************************************************************************)
\* The two UNIQUE constraints of the puzzle table, as the fields an INSERT
\* of row violates on table rows (empty when it violates none).
UniqueViolations(rows, row) ==
  (IF \E k \in 1..Len(rows) :
         /\ rows[k].submitted_by = row.submitted_by
         /\ rows[k].day_offset = row.day_offset
   THEN {"day_offset"} ELSE {})
  \cup
  (IF \E k \in 1..Len(rows) :
         /\ rows[k].submitted_by = row.submitted_by
         /\ rows[k].submitted_date = row.submitted_date
   THEN {"submitted_date"} ELSE {})

\* The row insert_puzzle binds to its INSERT statement at instant t.
PuzzleRow(user, puzzle, t) ==
  [submitter |-> user.name, submitted_by |-> user.id, submitted_at |-> t,
   submitted_date |-> DateNaive(t), day_offset |-> puzzle.day_offset,
   attempts |-> puzzle.attempts, solved |-> puzzle.solved,
   hard_mode |-> puzzle.hard_mode, puzzle |-> PuzzleToString(puzzle)]

\* insert_puzzle: res is "ok", "unique" or "unknown"; db_ok is whether the
\* database executes the statement at all.
InsertPuzzle(rows, user, puzzle, t, db_ok) ==
  LET row == PuzzleRow(user, puzzle, t)
  IN IF ~db_ok THEN [res |-> "unknown", rows |-> rows]
     ELSE IF UniqueViolations(rows, row) # {} THEN [res |-> "unique", rows |-> rows]
     ELSE [res |-> "ok", rows |-> Append(rows, row)]

\* ORDER BY key ASC over items [key, val]: a stable insertion sort.
RECURSIVE InsertSorted(_, _)
InsertSorted(sorted, x) ==
  IF sorted = <<>> THEN <<x>>
  ELSE IF x.key < Head(sorted).key THEN <<x>> \o sorted
  ELSE <<Head(sorted)>> \o InsertSorted(Tail(sorted), x)

RECURSIVE SortItems(_)
SortItems(items) ==
  IF items = <<>> THEN <<>>
  ELSE InsertSorted(SortItems(SubSeq(items, 1, Len(items) - 1)),
                    items[Len(items)])

\* The values of the items [key, val] in ascending order of their keys.
OrderBy(items) ==
  LET sorted == SortItems(items)
  IN [k \in 1..Len(sorted) |-> sorted[k].val]

\* DENSE_RANK() in the place of RANK(): a row that is no peer of its
\* predecessor takes the next rank.
RECURSIVE RankAtDense(_, _)
RankAtDense(ordered, k) ==
  IF k = 1 THEN 1
  ELSE IF ordered[k].attempts = ordered[k - 1].attempts
    THEN RankAtDense(ordered, k - 1)
  ELSE RankAtDense(ordered, k - 1) + 1

\* RANK() over rows already ordered by attempts: the first row has rank 1, a
\* row takes the rank of its predecessor when they are peers and its own
\* position otherwise.
RECURSIVE RankAt(_, _)
RankAt(ordered, k) ==
  IF k = 1 THEN 1
  ELSE IF ordered[k].attempts = ordered[k - 1].attempts THEN RankAt(ordered, k - 1)
  ELSE k

\* SELECT *, RANK() OVER (ORDER BY attempts ASC) AS rank FROM puzzle
\* WHERE submitted_date = date
RankedByDate(rows, date) ==
  LET part == SelectSeq(rows, LAMBDA r : r.submitted_date = date)
      ordered == OrderBy([k \in 1..Len(part) |->
                            [key |-> part[k].attempts, val |-> part[k]]])
  IN [k \in 1..Len(ordered) |-> [row |-> ordered[k], rank |-> RankAt(ordered, k)]]

\* find_puzzles_by_date_and_rank
FindPuzzlesByDateAndRank(rows, date, rank) ==
  LET hits == SelectSeq(RankedByDate(rows, date), LAMBDA e : e.rank = rank)
      byTime == OrderBy([k \in 1..Len(hits) |->
                           [key |-> hits[k].row.submitted_at, val |-> hits[k]]])
  IN [k \in 1..Len(byTime) |-> byTime[k].row]

\* find_puzzles_by_date_ordered_by_rank: ORDER BY rank, submitted_at ASC
FindPuzzlesByDateOrderedByRank(rows, date) ==
  LET ranked == RankedByDate(rows, date)
      byTime == OrderBy([k \in 1..Len(ranked) |->
                           [key |-> ranked[k].row.submitted_at, val |-> ranked[k]]])
  IN OrderBy([k \in 1..Len(byTime) |->
                [key |-> byTime[k].rank, val |-> byTime[k]]])

\* find_yesterdays_winners at instant t
FindYesterdaysWinners(rows, t) ==
  FindPuzzlesByDateAndRank(rows, DateNaive(t - TicksPerDay), 1)

(***************************************************************************)
(* Inputs: boards, share texts, chat messages                              *)
(***************************************************************************)
GreenRow == <<"Green", "Green", "Green", "Green", "Green">>

FillerRows ==
  {<<"Black", "Yellow", "Black", "Black", "Green">>,
   <<"Yellow", "Black", "Green", "Black", "Black">>}

\* A game trace of n rows: n - 1 filler rows, then the solving row when
\* the game was solved.
GameBoard(n, solved, filler) ==
  [r \in 1..n |-> IF r = n /\ solved THEN GreenRow ELSE filler]

\* The text the game's share button produces.
ShareText(n, token, hard, board) ==
  WordlePrefix \o GroupedDayOffset(n) \o <<" ", token, "/", "6">>
    \o (IF hard THEN <<"*">> ELSE <<>>)
    \o <<NL, NL>> \o BoardToString(board)

Filler1 == <<"Black", "Yellow", "Black", "Black", "Green">>

Users == {[id |-> 1, name |-> "ann"], [id |-> 2, name |-> "bob"]}

\* The day offsets of the modelled days.
DayOffsets == StartOffset..(StartOffset + (MaxTicks \div TicksPerDay))

OverflowText ==
  WordlePrefix \o <<"2","1","4","7","4","8","3",",","6","4","8">>
    \o <<" ", "4", "/", "6", NL, NL>> \o BoardToString(GameBoard(4, TRUE, Filler1))

LowerCaseText ==
  <<"w", "o", "r", "d", "l", "e", " ">> \o GroupedDayOffset(StartOffset)
    \o <<" ", "4", "/", "6", NL, NL>> \o BoardToString(GameBoard(4, TRUE, Filler1))

BadBoardText ==
  WordlePrefix \o GroupedDayOffset(StartOffset)
    \o <<" ", "3", "/", "6", NL, NL, "h", "i">>

Contents ==
  {ShareText(n, "2", FALSE, GameBoard(2, TRUE, Filler1)) : n \in DayOffsets}
  \cup {ShareText(n, "X", TRUE, GameBoard(6, FALSE, Filler1)) : n \in DayOffsets}
  \cup {ShareText(StartOffset, "7", FALSE, GameBoard(6, TRUE, Filler1))}
  \cup {OverflowText, LowerCaseText, BadBoardText}

\* A chat message: its channel kind and its author are optional.
Messages ==
  {[channel |-> <<"ChatRoom">>, author |-> <<u>>, content |-> c] :
     u \in Users, c \in Contents}
  \cup {[channel |-> ch, author |-> <<u>>,
          content |-> ShareText(StartOffset, "2", FALSE, GameBoard(2, TRUE, Filler1))] :
     ch \in {<<>>, <<"DirectMessage">>}, u \in Users}
  \cup {[channel |-> <<"ChatRoom">>, author |-> <<>>, content |-> c] :
     c \in {LowerCaseText, ShareText(StartOffset, "2", FALSE, GameBoard(2, TRUE, Filler1))}}

(***************************************************************************)
(* The plugin                                                              *)
(***************************************************************************)
None == [op |-> "none"]

\* What a call of get_current_puzzle leaves in the observation record.
GetObs(reset, g) ==
  [op |-> "get", reset |-> reset, pre |-> cache, at |-> now,
   status |-> g.status, ret |-> g.ret, queries |-> g.queries, log |-> g.log]

Init ==
  /\ now = StartNow
  /\ cache = <<>>
  /\ store = <<>>
  /\ phase = "loaded"
  /\ input = None
  /\ last = None

\* get_current_puzzle(reset) as its callers in the plugin see it: what it
\* can return and leave cached.
Gets(reset) ==
  {[status |-> g.status, ret |-> g.ret, cell |-> g.cell] :
     g \in GetCurrentPuzzle(reset, cache, now, 0, <<>>)}

\* initialize: caches the puzzle of the day and registers the two crons.
Initialize ==
  /\ phase = "loaded"
  /\ \E g \in Gets(FALSE) :
          /\ cache' = g.cell
          /\ phase' = IF g.status = "returned" THEN "running" ELSE "stuck"
          /\ last' = [op |-> "initialize", status |-> g.status]
  /\ UNCHANGED <<now, store, input>>

\* The cron "0 0 0 * * *": a forced get at midnight.
CronRefresh ==
  /\ phase = "running"
  /\ now % TicksPerDay = 0
  /\ \E g \in Gets(TRUE) :
          /\ cache' = g.cell
          /\ phase' = IF g.status = "returned" THEN "running" ELSE "stuck"
          /\ last' = [op |-> "cron_refresh", status |-> g.status]
  /\ UNCHANGED <<now, store, input>>

\* The day check of handle_message left out.
DayMatchesAlways(puzzle, current) == TRUE

\* puzzle.day_offset != get_current_puzzle(false).days_since_launch, negated
DayMatches(puzzle, current) == puzzle.day_offset = current.days_since_launch

\* Puzzle::try_from of every content a message can carry.
Parsed == [c \in Contents |-> PuzzleTryFrom(c)]

\* What handle_message leaves in the observation record: how it ended, the
\* parsed puzzle, the value get_current_puzzle returned (if it was called and
\* returned), the reactions requested, whether a row was inserted, and the
\* table before the call.
HandleObs(parsed, outcome, current, reactions, inserted) ==
  [op |-> "handle_message", outcome |-> outcome, parse |-> parsed.kind,
   puzzle |-> parsed.puzzle, current |-> current, reactions |-> reactions,
   inserted |-> inserted, rows |-> store, at |-> now]

\* handle_message returning before it looks at the cache.
Ignored(parsed, outcome) ==
  /\ last' = HandleObs(parsed, outcome, <<>>, <<>>, FALSE)
  /\ UNCHANGED <<cache, store, phase>>

\* handle_message from the call of get_current_puzzle(false) on, which
\* returns g.ret and leaves g.cell cached.
Record(msg, parsed, g) ==
  /\ cache' = g.cell
  /\ IF g.status = "cut" THEN
       /\ last' = HandleObs(parsed, "stuck", <<>>, <<>>, FALSE)
       /\ phase' = "stuck"
       /\ UNCHANGED store
     ELSE IF ~DayMatches(parsed.puzzle, g.ret) THEN
       /\ last' = HandleObs(parsed, "wrong_day", <<g.ret>>,
                            <<"reject", "wrong_day">>, FALSE)
       /\ UNCHANGED <<store, phase>>
     ELSE \E db_ok \in BOOLEAN :
       LET ins == InsertPuzzle(store, msg.author[1], parsed.puzzle, now, db_ok)
       IN /\ last' = HandleObs(parsed, ins.res, <<g.ret>>,
                               IF ins.res = "ok" THEN <<"accept">>
                               ELSE <<"reject">>,
                               ins.res = "ok")
          /\ store' = ins.rows
          /\ UNCHANGED phase

\* handle_message; g is what get_current_puzzle(false) does when the handler
\* gets as far as calling it.
HandleMessage ==
  /\ phase = "running"
  /\ \E g \in Gets(FALSE), msg \in Messages :
       IF msg.channel = <<>> THEN Ignored(Parsed[msg.content], "no_channel")
       ELSE IF msg.channel[1] # "ChatRoom"
         THEN Ignored(Parsed[msg.content], "not_chat_room")
       ELSE IF Parsed[msg.content].kind = "panic" THEN
         /\ last' = HandleObs(Parsed[msg.content], "panic", <<>>, <<>>, FALSE)
         /\ phase' = "aborted"
         /\ UNCHANGED <<cache, store>>
       ELSE IF Parsed[msg.content].kind = "err"
         THEN Ignored(Parsed[msg.content], "not_a_puzzle")
       ELSE IF msg.author = <<>> THEN Ignored(Parsed[msg.content], "no_author")
       ELSE Record(msg, Parsed[msg.content], g)
  /\ UNCHANGED <<now, input>>

\* The attempts announce_yesterdays_winners has a comment for.
Commented == 1..6

\* The cron "0 0 9 * * *": announce_yesterdays_winners.
AnnounceYesterdaysWinners ==
  /\ phase = "running"
  /\ now % TicksPerDay = 1
  /\ LET winners == FindYesterdaysWinners(store, now)
     IN IF winners = <<>>
          THEN /\ last' = [op |-> "announce", at |-> now, winners |-> <<>>, sent |-> FALSE]
               /\ UNCHANGED phase
        ELSE IF winners[1].attempts \notin Commented
          THEN /\ last' = [op |-> "announce", at |-> now, winners |-> winners, sent |-> FALSE]
               /\ phase' = "aborted"
        ELSE /\ last' = [op |-> "announce", at |-> now, winners |-> winners, sent |-> TRUE]
             /\ UNCHANGED phase
  /\ UNCHANGED <<now, cache, store, input>>

\* wordle_chat_commands: the leaderboard of today, no response when empty.
WordleChatCommands ==
  /\ phase = "running"
  /\ LET leaderboard == FindPuzzlesByDateOrderedByRank(store, DateNaive(now))
     IN last' = [op |-> "leaderboard", at |-> now, leaderboard |-> leaderboard,
                 sent |-> leaderboard # <<>>]
  /\ UNCHANGED <<now, cache, store, phase, input>>

\* Time passes; the observation of the last operation is dropped.
Tick ==
  /\ now < MaxNow
  /\ now' = now + 1
  /\ last' = None
  /\ UNCHANGED <<cache, store, phase, input>>

Next ==
  \/ Initialize
  \/ CronRefresh
  \/ HandleMessage
  \/ AnnounceYesterdaysWinners
  \/ WordleChatCommands
  \/ Tick

Spec == Init /\ [][Next]_vars

(***************************************************************************)
(* The daily-puzzle cache on its own: get_current_puzzle called with       *)
(* either flag at any instant, from the empty cell on.                     *)
(***************************************************************************)
InitGet ==
  /\ now = StartNow
  /\ cache = <<>>
  /\ store = <<>>
  /\ phase = "running"
  /\ input = None
  /\ last = None

\* get_current_puzzle(reset)
Get(reset) ==
  /\ phase = "running"
  /\ \E g \in GetCurrentPuzzle(reset, cache, now, 0, <<>>) :
       /\ cache' = g.cell
       /\ phase' = IF g.status = "returned" THEN "running" ELSE "stuck"
       /\ last' = GetObs(reset, g)
  /\ UNCHANGED <<now, store, input>>

GetForced == Get(TRUE)

GetPlain == Get(FALSE)

NextGet ==
  \/ GetForced
  \/ GetPlain
  \/ Tick

SpecGet == InitGet /\ [][NextGet]_vars

(***************************************************************************)
(* The codec on its own: Puzzle values that are encoded and parsed back,   *)
(* and texts that are parsed.                                              *)
(***************************************************************************)
DayOffsetSamples == {0, 7, 999, 1000, 1234, 12345, 999999, 1000000, I32Max}

\* The syntactically valid Puzzle values: solved in 1..6 attempts with a
\* board of that many rows, or unsolved with a board of six rows.
ValidPuzzles ==
  {[day_offset |-> n, attempts |-> a, solved |-> TRUE, hard_mode |-> h,
    board |-> GameBoard(a, TRUE, f)] :
     n \in DayOffsetSamples, a \in 1..MaxRows, h \in BOOLEAN, f \in FillerRows}
  \cup
  {[day_offset |-> n, attempts |-> MaxRows, solved |-> FALSE, hard_mode |-> h,
    board |-> GameBoard(MaxRows, FALSE, f)] :
     n \in DayOffsetSamples, h \in BOOLEAN, f \in FillerRows}

HeaderWords ==
  {WordlePrefix, <<"w", "o", "r", "d", "l", "e", " ">>, <<"x">> \o WordlePrefix}

HeaderOffsets ==
  {<<"1", ",", "2", "3", "4">>, <<"1", "2", "3", "4">>, <<"9", "9", "9">>,
   <<"1", ",", "2", "3", "4", ",", "5", "6", "7">>,
   <<"2", "1", "4", "7", "4", "8", "3", ",", "6", "4", "8">>,
   <<"0", ",", "0", "0", "1">>}

HeaderTokens == {"0", "4", "6", "7", "X", "Y"}

HeaderSlashes == {<<"/", "6">>, <<"/", "5">>}

HeaderMarks == {<<>>, <<"*">>, <<" ", "l", "o", "l">>}

AliasGreenRow ==
  Join([k \in 1..MaxRowLen |-> <<":">> \o AliasGreen \o <<":">>], <<>>)

Bodies ==
  {<<>>,
   <<NL, NL>> \o BoardToString(GameBoard(4, TRUE, Filler1)),
   <<NL>> \o AliasGreenRow,
   <<NL, NL, "h", "i">>,
   <<NL, NL>> \o BoardToString(GameBoard(MaxRows + 1, TRUE, Filler1))}

Texts ==
  {w \o o \o <<" ", t>> \o sl \o m \o b :
     w \in HeaderWords, o \in HeaderOffsets, t \in HeaderTokens,
     sl \in HeaderSlashes, m \in HeaderMarks, b \in Bodies}
  \cup {<<>>, WordlePrefix}

CodecInputs ==
  {[kind |-> "puzzle", puzzle |-> p, text |-> <<>>] : p \in ValidPuzzles}
  \cup {[kind |-> "text", puzzle |-> NoPuzzle, text |-> t] : t \in Texts}

InitCodec ==
  /\ now = StartNow
  /\ cache = <<>>
  /\ store = <<>>
  /\ phase = "codec"
  /\ input \in CodecInputs
  /\ last = None

\* String::from(puzzle), then Puzzle::try_from of the text.
RoundTrip ==
  /\ input.kind = "puzzle"
  /\ last = None
  /\ LET text == PuzzleToString(input.puzzle)
     IN last' = [op |-> "roundtrip", text |-> text, back |-> PuzzleTryFrom(text)]
  /\ UNCHANGED <<now, cache, store, phase, input>>

\* Puzzle::try_from(text)
TryFrom ==
  /\ input.kind = "text"
  /\ last = None
  /\ last' = [op |-> "try_from", res |-> PuzzleTryFrom(input.text)]
  /\ UNCHANGED <<now, cache, store, phase, input>>

NextCodec ==
  \/ RoundTrip
  \/ TryFrom

SpecCodec == InitCodec /\ [][NextCodec]_vars

(***************************************************************************)
(* The ranking queries on their own: the queries of the leaderboard        *)
(* command and of the winners announcement over a stored table.            *)
(***************************************************************************)
NumRankUsers == 4

RankUsers == [k \in 1..NumRankUsers |-> [id |-> k, name |-> "user"]]

RankAttempts == {2, 4, 6}

\* What a user has in the table for the date: nothing (attempts 0), or a
\* submission with its attempts made at a tick of the date.
RankChoices ==
  [1..NumRankUsers -> {[attempts |-> 0, tick |-> 0]}
                      \cup [attempts : RankAttempts, tick : 0..(TicksPerDay - 1)]]

\* The instant of the 09:00 cron on the second modelled day.
RankNow == StartNow + TicksPerDay + 1

\* The table holding the choices ch for date d, in insertion order (the
\* order of submitted_at).
RankStore(ch, d) ==
  LET rows == [k \in 1..NumRankUsers |->
                 PuzzleRow(RankUsers[k],
                           [day_offset |-> d - LaunchDate,
                            attempts |-> ch[k].attempts, solved |-> TRUE,
                            hard_mode |-> FALSE,
                            board |-> GameBoard(ch[k].attempts, TRUE, Filler1)],
                           d * TicksPerDay + ch[k].tick)]
      present == SelectSeq(rows, LAMBDA r : r.attempts # 0)
  IN OrderBy([k \in 1..Len(present) |->
                [key |-> present[k].submitted_at, val |-> present[k]]])

InitRank ==
  /\ now = RankNow
  /\ cache = <<FromCalculated(RankNow)>>
  /\ \E ch \in RankChoices, d \in {DateNaive(RankNow) - 1, DateNaive(RankNow)} :
       store = RankStore(ch, d)
  /\ phase = "running"
  /\ input = None
  /\ last = None

NextRank ==
  \/ AnnounceYesterdaysWinners
  \/ WordleChatCommands

SpecRank == InitRank /\ [][NextRank]_vars

(***************************************************************************)
(* Properties                                                              *)
(***************************************************************************)
IsGet == last.op = "get"

\* The last refresh of the observed call fetched a value.
LastRefreshFetched ==
  /\ Len(last.log) > 0
  /\ last.log[Len(last.log)].fetched # <<>>

\* C1: whenever a refresh of the cache succeeds, the cell holds the newly
\* fetched value right afterwards, and a call whose last refresh succeeded
\* returns that value and leaves it cached; the cell may have been empty or
\* may have held an older value.
C1_RefreshReplaces ==
  IsGet =>
    /\ \A k \in 1..Len(last.log) :
         last.log[k].fetched # <<>> => last.log[k].cell = last.log[k].fetched
    /\ (last.status = "returned" /\ LastRefreshFetched) =>
         /\ last.ret = last.log[Len(last.log)].fetched[1]
         /\ cache = last.log[Len(last.log)].fetched

\* C2: every call of get, forced or plain, returns, and has queried the
\* metadata source at most twice when it does.
C2_AtMostTwoQueries ==
  IsGet => (last.status = "returned" /\ last.queries <= 2)

\* C3: a forced get whose refresh fails returns the value cached before and
\* leaves the cell unchanged; with an empty cell it returns and caches a
\* value whose day offset is the number of whole days from the launch date
\* to today, whose print date is today and whose solution is empty.
C3_ExhaustedForcedGet ==
  (IsGet /\ last.reset /\ last.status = "returned"
     /\ last.log[1].fetched = <<>>) =>
    IF last.pre # <<>>
      THEN last.ret = last.pre[1] /\ cache = last.pre
    ELSE /\ last.ret.days_since_launch = DateNaive(last.at) - LaunchDate
         /\ last.ret.print_date = DateNaive(last.at)
         /\ last.ret.solution = ""
         /\ cache = <<last.ret>>

\* C3 witness: a forced get on the empty cell, a day after the start, whose
\* two queries both failed and which cached the value it returned.
C3_Witness ==
  /\ IsGet /\ last.reset /\ last.status = "returned"
  /\ last.pre = <<>>
  /\ last.log[1].outcomes = <<"deser_err", "deser_err">>
  /\ DateNaive(last.at) > DateNaive(StartNow)
  /\ cache = <<last.ret>>

\* C4: in every refresh, a failed first query is followed by exactly one
\* retry before the fallback is taken, whether the first query failed in
\* the transport or in the deserialization.
C4_FailedQueryRetried ==
  IsGet =>
    \A k \in 1..Len(last.log) :
      last.log[k].outcomes[1] \in {"net_err", "deser_err"}
        => Len(last.log[k].outcomes) = 2

IsHandled == last.op = "handle_message"

\* C5: handle_message inserts a parsed submission only if its day offset
\* equals the day offset of the value get(false) returned, and the inserted
\* row carries that day offset; when the two differ the table is unchanged
\* and the reactions are reject and wrong-day, never accept.
C5_InsertOnlyOnCachedDay ==
  IsHandled =>
    /\ last.inserted =>
         /\ last.current # <<>>
         /\ last.puzzle.day_offset = last.current[1].days_since_launch
         /\ Len(store) = Len(last.rows) + 1
         /\ SubSeq(store, 1, Len(last.rows)) = last.rows
         /\ store[Len(store)].day_offset = last.current[1].days_since_launch
    /\ ~last.inserted => store = last.rows
    /\ (/\ last.current # <<>>
        /\ last.puzzle.day_offset # last.current[1].days_since_launch) =>
         /\ ~last.inserted
         /\ last.reactions = <<"reject", "wrong_day">>
    /\ (\E k \in 1..Len(last.reactions) : last.reactions[k] = "accept")
         => last.inserted

\* C5 witness: a submission for another day is rejected after a submission
\* was stored, the cache reporting the day offset of the stored row.
C5_Witness ==
  /\ IsHandled
  /\ last.outcome = "wrong_day"
  /\ last.reactions = <<"reject", "wrong_day">>
  /\ Len(store) >= 1
  /\ store[Len(store)].day_offset = last.current[1].days_since_launch

\* C6: for every syntactically valid Puzzle value p, parse(encode(p))
\* succeeds and equals p in every field.
C6_RoundTrip ==
  last.op = "roundtrip" =>
    (last.back.kind = "ok" /\ last.back.puzzle = input.puzzle)

\* C7: the header written for day offset n is read back as n, for every
\* non-negative n.
C7_DayOffsetRoundTrip ==
  last.op = "roundtrip" =>
    /\ last.back.kind = "ok"
    /\ last.back.puzzle.day_offset = input.puzzle.day_offset

\* The header grammar in its most permissive reading: somewhere in the line,
\* "Wordle ", digits and commas that begin and end with a digit, a space,
\* a digit 1-6 or X, and "/6".
HeaderGrammar(line) ==
  \E i \in 1..Len(line), j \in 1..Len(line) :
    /\ IsPrefixAt(line, WordlePrefix, i)
    /\ j >= i + Len(WordlePrefix)
    /\ \A k \in (i + Len(WordlePrefix))..j : line[k] \in Digits \cup {","}
    /\ line[i + Len(WordlePrefix)] \in Digits
    /\ line[j] \in Digits
    /\ j + 4 <= Len(line)
    /\ line[j + 1] = " "
    /\ line[j + 2] \in {"1", "2", "3", "4", "5", "6", "X"}
    /\ line[j + 3] = "/"
    /\ line[j + 4] = "6"

FirstLine(text) == IF Lines(text) = <<>> THEN <<>> ELSE Head(Lines(text))

\* C8: parse produces a Puzzle only when the first line matches the header
\* grammar; for any other first line it fails with the header error, before
\* any board is parsed.
C8_HeaderGrammarOnly ==
  last.op = "try_from" =>
    /\ last.res.kind = "ok" => HeaderGrammar(FirstLine(input.text))
    /\ ~HeaderGrammar(FirstLine(input.text)) =>
         (last.res.kind = "err" /\ last.res.stage = "header")

\* C10: for every message text, parse returns a Puzzle or a failure; it
\* never aborts.
C10_ParseNeverFatal ==
  last.op = "try_from" => last.res.kind \in {"ok", "err"}

\* The rows the table holds for a date.
RowsOfDate(d) == {store[k] : k \in {h \in 1..Len(store) : store[h].submitted_date = d}}

\* C9: each entry of a date's leaderboard has rank one plus the number of
\* entries of that date with strictly fewer attempts, and the leaderboard
\* holds exactly the rows of the date; the winners are exactly the rows of
\* the date that no row beats, in ascending submission time.
C9_CompetitionRanking ==
  /\ last.op = "leaderboard" =>
       LET lb == last.leaderboard
       IN /\ {lb[k].row : k \in 1..Len(lb)} = RowsOfDate(DateNaive(last.at))
          /\ Len(lb) = Cardinality(RowsOfDate(DateNaive(last.at)))
          /\ \A k \in 1..Len(lb) :
               lb[k].rank =
                 1 + Cardinality({j \in 1..Len(lb) :
                                    lb[j].row.attempts < lb[k].row.attempts})
  /\ last.op = "announce" =>
       LET w == last.winners
           rows == RowsOfDate(DateNaive(last.at) - 1)
       IN /\ {w[k] : k \in 1..Len(w)} =
               {r \in rows : ~\E r2 \in rows : r2.attempts < r.attempts}
          /\ Len(w) = Cardinality({w[k] : k \in 1..Len(w)})
          /\ \A k \in 1..(Len(w) - 1) : w[k].submitted_at <= w[k + 1].submitted_at

\* C9 witness: a leaderboard over attempts 2, 2, 4, 6 with ranks 1, 1, 3, 4.
C9_Witness ==
  /\ last.op = "leaderboard"
  /\ Len(last.leaderboard) = 4
  /\ [k \in 1..4 |-> last.leaderboard[k].row.attempts] = <<2, 2, 4, 6>>
  /\ [k \in 1..4 |-> last.leaderboard[k].rank] = <<1, 1, 3, 4>>

\* The dates of the modelled instants.
StoredDates == {DateNaive(t) : t \in StartNow..MaxNow}

\* Among the rows stored for date d, no unsolved row has a rank strictly
\* better than a solved row.
UnsolvedNeverOutranksSolved(d) ==
  LET ranked == RankedByDate(store, d)
  IN \A i, j \in 1..Len(ranked) :
       (~ranked[i].row.solved /\ ranked[j].row.solved)
         => ranked[i].rank >= ranked[j].rank

\* C11: among the rows stored for one date after any sequence of accepted
\* messages, no unsolved row (stored with 6 attempts) has a rank strictly
\* better than a solved row; that is, every stored row of a Puzzle that
\* parse accepted with solved = true has at most 6 attempts.
C11_UnsolvedNeverOutranksSolved ==
  /\ \A d \in StoredDates : UnsolvedNeverOutranksSolved(d)
  /\ \A k \in 1..Len(store) : store[k].solved => store[k].attempts <= MaxRows

====
